---- MODULE Spec2Model ----
(***************************************************************************)
(* Model of src/postgres-update.py: the statement splitter                *)
(* (extract_statements), the catalog snapshot (get_existing_objects), the *)
(* redundancy filter (filter_statements), the safety rewriter             *)
(* (modify_statements_for_safety) and the apply run (apply_schema_updates *)
(* with backup_database).                                                 *)
(*                                                                         *)
(* Text is modelled as sequences of whitespace-separated tokens; a line is *)
(* a sequence of tokens (stripped; the empty sequence is a blank line) and *)
(* a statement text is its lines joined with the NL token, as              *)
(* '\n'.join(...) does.  Substring tests ('X Y' in s), prefix tests and    *)
(* suffix tests become contiguous token-subsequence tests.                 *)
(***************************************************************************)
EXTENDS Integers, Sequences, FiniteSets, TLC

NL == "\n"

(* Tokens whose text ends with ';' (str.endswith(';')). *)
SemiTokens == {"int);", "END;", "plpgsql;", "t(id);", "t;"}

(* A small alphabet of concrete schema-file lines. *)
LBlank    == << >>
LComment  == <<"--", "note">>
LTable    == <<"CREATE", "TABLE", "t", "(">>
LCol      == <<"id", "int);">>
LColOpen  == <<"id", "int,">>
LIndex    == <<"CREATE", "INDEX", "idx", "ON", "t(id);">>
LFunc     == <<"CREATE", "FUNCTION", "f()", "RETURNS", "void", "AS", "$$">>
LBody     == <<"BEGIN", "END;">>
LEnd      == <<"$$", "LANGUAGE", "plpgsql;">>
LFuncOne  == <<"CREATE", "OR", "REPLACE", "FUNCTION", "f()", "RETURNS", "void",
               "AS", "$$", "BEGIN", "END;", "$$", "LANGUAGE", "plpgsql;">>
LInsert   == <<"INSERT", "INTO", "t;">>

LineAlphabet == {LBlank, LComment, LTable, LCol, LColOpen, LIndex, LFunc,
                 LBody, LEnd, LFuncOne, LInsert}

MaxLines == 4

(* Text helpers *)
StartsWith(s, p) == Len(p) <= Len(s) /\ SubSeq(s, 1, Len(p)) = p

EndsWith(s, p) == Len(p) <= Len(s) /\ SubSeq(s, Len(s) - Len(p) + 1, Len(s)) = p

Contains(s, p) == \E i \in 1..(Len(s) - Len(p) + 1) : SubSeq(s, i, i + Len(p) - 1) = p

RECURSIVE JoinLines(_)
JoinLines(ls) ==
  IF ls = << >> THEN << >>
  ELSE IF Len(ls) = 1 THEN ls[1]
  ELSE ls[1] \o <<NL>> \o JoinLines(Tail(ls))

RECURSIVE Flatten(_)
Flatten(ss) == IF ss = << >> THEN << >> ELSE Head(ss) \o Flatten(Tail(ss))

(* line-level tests of extract_statements *)
IsSkipped(l) == l = << >> \/ StartsWith(l, <<"--">>)

IsFuncStart(l) == StartsWith(l, <<"CREATE", "OR", "REPLACE", "FUNCTION">>)
                  \/ StartsWith(l, <<"CREATE", "FUNCTION">>)

IsCreate(l) == StartsWith(l, <<"CREATE">>)

EndsFunc(l) == EndsWith(l, <<"LANGUAGE", "plpgsql;">>)

EndsSemi(l) == Len(l) > 0 /\ l[Len(l)] \in SemiTokens

VARIABLES
  sIn,      \* schema_content.splitlines() (stripped lines)
  sPos,     \* index of the next line of the for loop
  cur,      \* current_statement (a sequence of lines)
  inFn,     \* in_function_body
  stmts,    \* statements (each a sequence of lines; its text is JoinLines)
  sDrop,    \* ghost: positions of retained lines that no branch appended
  sDone     \* the function has returned

splitVars == <<sIn, sPos, cur, inFn, stmts, sDrop, sDone>>

VARIABLES
  qRes,     \* what run_command returns for each category's query (None or rows)
  qPos,     \* next query of get_existing_objects
  objs,     \* existing_objects
  fIn,      \* statements given to filter_statements
  fPos,     \* next statement of the for loop
  fOut,     \* filtered_statements
  fDec,     \* ghost: per processed statement, the category consulted and skip
  fDone

filterVars == <<qRes, qPos, objs, fIn, fPos, fOut, fDec, fDone>>

VARIABLES
  rIn,      \* statements given to modify_statements_for_safety
  rPass,    \* 1: first call; 2: second call on the first call's output
  rPos,     \* next statement of the for loop
  r1,       \* modified_statements of the first call
  r2,       \* modified_statements of the second call
  rDone

rewriteVars == <<rIn, rPass, rPos, r1, r2, rDone>>

RewriteDefault ==
  /\ rIn = << >> /\ rPass = 1 /\ rPos = 1 /\ r1 = << >> /\ r2 = << >> /\ rDone = FALSE

VARIABLES
  aPc,        \* position in apply_schema_updates
  aN,         \* len(safe_statements)
  aAnalyzed,  \* create_database and the schema read succeeded (line 264 reached)
  aConfirm,   \* "unasked" | "y" | "n": the answer to the proceed prompt
  aBackup,    \* "none" | "ok" | "failed": how the pg_dump command ended
  aBackupFile,\* backup_database returned a file (the file exists)
  executed,   \* indices of the statements run, in order
  succ,       \* success_count
  err,        \* error_count
  result      \* the return value

applyVars == <<aPc, aN, aAnalyzed, aConfirm, aBackup, aBackupFile, executed, succ, err, result>>

ApplyDefault ==
  /\ aPc = "createdb" /\ aN = 0 /\ aAnalyzed = FALSE /\ aConfirm = "unasked" /\ aBackup = "none"
  /\ aBackupFile = FALSE /\ executed = << >> /\ succ = 0 /\ err = 0 /\ result = FALSE

(* The existing_objects dictionary of get_existing_objects. *)
Categories == {"tables", "functions", "triggers", "indexes", "constraints",
               "policies", "types"}

(* run_command returning None (the query failed). *)
QueryFailed == [ok |-> FALSE, rows |-> {}]

EmptyObjects == [c \in Categories |-> {}]

FilterDefault ==
  /\ qRes = [c \in Categories |-> QueryFailed] /\ qPos = 1 /\ objs = EmptyObjects
  /\ fIn = << >> /\ fPos = 1 /\ fOut = << >> /\ fDec = << >> /\ fDone = FALSE

InputSeqs == UNION {[1..n -> LineAlphabet] : n \in 0..MaxLines}

SplitDefault ==
  /\ sIn = << >> /\ sPos = 1 /\ cur = << >> /\ inFn = FALSE
  /\ stmts = << >> /\ sDrop = {} /\ sDone = FALSE

SplitInit ==
  /\ sIn \in InputSeqs
  /\ sPos = 1
  /\ cur = << >>
  /\ inFn = FALSE
  /\ stmts = << >>
  /\ sDrop = {}
  /\ sDone = FALSE
  /\ FilterDefault
  /\ RewriteDefault
  /\ ApplyDefault

(* Variant: a non-CREATE line met with no accumulator open starts one.  *)
SplitLineOrphan ==
  /\ ~sDone
  /\ sPos <= Len(sIn)
  /\ LET line == sIn[sPos] IN
     IF IsSkipped(line) THEN
        UNCHANGED <<cur, inFn, stmts, sDrop>>
     ELSE IF IsFuncStart(line) THEN
        /\ stmts' = IF cur # << >> THEN Append(stmts, cur) ELSE stmts
        /\ cur' = <<line>>
        /\ inFn' = TRUE
        /\ UNCHANGED sDrop
     ELSE IF inFn THEN
        IF EndsFunc(line) THEN
           /\ stmts' = Append(stmts, Append(cur, line))
           /\ cur' = << >>
           /\ inFn' = FALSE
           /\ UNCHANGED sDrop
        ELSE
           /\ cur' = Append(cur, line)
           /\ UNCHANGED <<inFn, stmts, sDrop>>
     ELSE IF IsCreate(line) THEN
        /\ stmts' = IF cur # << >> THEN Append(stmts, cur) ELSE stmts
        /\ cur' = <<line>>
        /\ UNCHANGED <<inFn, sDrop>>
     ELSE
        IF EndsSemi(line) /\ ~inFn THEN
           /\ stmts' = Append(stmts, Append(cur, line))
           /\ cur' = << >>
           /\ UNCHANGED <<inFn, sDrop>>
        ELSE
           /\ cur' = Append(cur, line)
           /\ UNCHANGED <<inFn, stmts, sDrop>>
  /\ sPos' = sPos + 1
  /\ UNCHANGED <<sIn, sDone>>
  /\ UNCHANGED <<filterVars, rewriteVars, applyVars>>

(* One iteration of the for loop of extract_statements. *)
SplitLine ==
  /\ ~sDone
  /\ sPos <= Len(sIn)
  /\ LET line == sIn[sPos] IN
     IF IsSkipped(line) THEN
        UNCHANGED <<cur, inFn, stmts, sDrop>>
     ELSE IF IsFuncStart(line) THEN
        /\ stmts' = IF cur # << >> THEN Append(stmts, cur) ELSE stmts
        /\ cur' = <<line>>
        /\ inFn' = TRUE
        /\ UNCHANGED sDrop
     ELSE IF inFn THEN
        IF EndsFunc(line) THEN
           /\ stmts' = Append(stmts, Append(cur, line))
           /\ cur' = << >>
           /\ inFn' = FALSE
           /\ UNCHANGED sDrop
        ELSE
           /\ cur' = Append(cur, line)
           /\ UNCHANGED <<inFn, stmts, sDrop>>
     ELSE IF IsCreate(line) THEN
        /\ stmts' = IF cur # << >> THEN Append(stmts, cur) ELSE stmts
        /\ cur' = <<line>>
        /\ UNCHANGED <<inFn, sDrop>>
     ELSE IF cur # << >> THEN
        IF EndsSemi(line) /\ ~inFn THEN
           /\ stmts' = Append(stmts, Append(cur, line))
           /\ cur' = << >>
           /\ UNCHANGED <<inFn, sDrop>>
        ELSE
           /\ cur' = Append(cur, line)
           /\ UNCHANGED <<inFn, stmts, sDrop>>
     ELSE
        /\ sDrop' = sDrop \cup {sPos}
        /\ UNCHANGED <<cur, inFn, stmts>>
  /\ sPos' = sPos + 1
  /\ UNCHANGED <<sIn, sDone>>
  /\ UNCHANGED <<filterVars, rewriteVars, applyVars>>

(* Variant: the pending accumulator is not flushed at the end. *)
SplitEndNoFlush ==
  /\ ~sDone
  /\ sPos > Len(sIn)
  /\ stmts' = stmts
  /\ cur' = << >>
  /\ sDone' = TRUE
  /\ UNCHANGED <<sIn, sPos, inFn, sDrop>>
  /\ UNCHANGED <<filterVars, rewriteVars, applyVars>>

(* After the loop: flush a pending accumulator and return. *)
SplitEnd ==
  /\ ~sDone
  /\ sPos > Len(sIn)
  /\ stmts' = IF cur # << >> THEN Append(stmts, cur) ELSE stmts
  /\ cur' = << >>
  /\ sDone' = TRUE
  /\ UNCHANGED <<sIn, sPos, inFn, sDrop>>
  /\ UNCHANGED <<filterVars, rewriteVars, applyVars>>

SplitNext == SplitLine \/ SplitEnd

SplitSpec == SplitInit /\ [][SplitNext]_splitVars

----------------------------------------------------------------------------
(* Splitter claims *)

Retained == SelectSeq(sIn, LAMBDA l : ~IsSkipped(l))

CreateLines == SelectSeq(Retained, LAMBDA l : IsCreate(l))

KeptPositions ==
  SelectSeq([i \in 1..Len(sIn) |-> i],
            LAMBDA i : ~IsSkipped(sIn[i]) /\ i \notin sDrop)

(* The retained input as top-level blocks: a block starts at each line    *)
(* that begins with CREATE and runs to the line before the next one.      *)
BlockStart(k) == CHOOSE m \in 1..k : IsCreate(Retained[m])
                   /\ \A m2 \in (m + 1)..k : ~IsCreate(Retained[m2])

IsBlockEnd(k) == k = Len(Retained) \/ IsCreate(Retained[k + 1])

(* Input made of top-level CREATE blocks with no embedded LANGUAGE        *)
(* plpgsql; marker: a line ending with the marker is the last line of a   *)
(* function block.                                                         *)
BlocksNoEmbeddedMarker ==
  /\ Len(Retained) > 0
  /\ IsCreate(Retained[1])
  /\ \A k \in 1..Len(Retained) :
        EndsFunc(Retained[k]) =>
           /\ IsBlockEnd(k)
           /\ IsFuncStart(Retained[BlockStart(k)])

(* Every function block spans several lines and is closed by its last     *)
(* line ending with LANGUAGE plpgsql;.                                     *)
FunctionBlocksClosed ==
  \A k \in 1..Len(Retained) :
     (IsBlockEnd(k) /\ IsFuncStart(Retained[BlockStart(k)])) =>
        /\ EndsFunc(Retained[k])
        /\ BlockStart(k) < k

SplitResultMatchesBlocks ==
  /\ Len(stmts) = Len(CreateLines)
  /\ \A i \in 1..Len(stmts) : stmts[i][1] = CreateLines[i]

C2_Claim ==
  sDone =>
    \A i, j \in 1..Len(Retained) :
      ( /\ i <= j
        /\ IsFuncStart(Retained[i])
        /\ EndsFunc(Retained[j])
        /\ \A k \in i..(j - 1) : ~EndsFunc(Retained[k])
        /\ \A k \in (i + 1)..j : ~IsFuncStart(Retained[k]) ) =>
         /\ \E m \in 1..Len(stmts) : stmts[m] = SubSeq(Retained, i, j)
         /\ (j < Len(Retained) /\ IsCreate(Retained[j + 1])) =>
               \E m \in 1..Len(stmts) : stmts[m][1] = Retained[j + 1]

(* C10: the lines of the output statements, concatenated in order, are the *)
(* retained (non-blank, non-comment) input lines minus the non-CREATE      *)
(* lines met while no accumulator was open.                                *)
C10_NoLineLost ==
  sDone => Flatten(stmts) = [k \in 1..Len(KeptPositions) |-> sIn[KeptPositions[k]]]

C10_Witness ==
  /\ sDone
  /\ sDrop # {}
  /\ Len(stmts) >= 2
  /\ \E m \in 1..Len(stmts) : Len(stmts[m]) >= 2

----------------------------------------------------------------------------
(* Statement texts (the output of extract_statements, joined with NL).     *)
(* Tokens are separated by single spaces within a line.                    *)

(* Tokens that do not start with a word character (\w). *)
NonWordTokens == {NL, "(", ")", ");", "$$", "'a'", "--"}

(* Schema-qualified tokens public.<name> and the name \w+ captures after   *)
(* the (?:public\.)? group.                                                *)
Qualified == [q \in {"public.t", "public.mood"} |->
                IF q = "public.t" THEN "t" ELSE "mood"]

(* The \w+ prefix of a token that starts with a word character. *)
WordPart(tok) ==
  CASE tok = "END;"      -> "END"
    [] tok = "plpgsql;"  -> "plpgsql"
    [] tok = "pgcrypto;" -> "pgcrypto"
    [] tok = "f()"       -> "f"
    [] tok = "t(id);"    -> "t"
    [] tok = "int);"     -> "int"
    [] tok = "int,"      -> "int"
    [] tok = "t;"        -> "t"
    [] OTHER -> tok

IsWord(tok) == tok \notin NonWordTokens

NoMatch == "<none>"

(* (?:public\.)?(\w+) at position j of s: the captured name or NoMatch. *)
CaptureAt(s, j) ==
  IF j > Len(s) THEN NoMatch
  ELSE IF s[j] \in DOMAIN Qualified THEN Qualified[s[j]]
  ELSE IF IsWord(s[j]) THEN WordPart(s[j])
  ELSE NoMatch

(* pat (?:IF NOT EXISTS )?(?:public\.)?(\w+) matched at position i, with  *)
(* the optional IF NOT EXISTS group when ine is TRUE.                       *)
MatchAt(s, i, pat, ine) ==
  IF ~(i + Len(pat) - 1 <= Len(s) /\ SubSeq(s, i, i + Len(pat) - 1) = pat)
  THEN NoMatch
  ELSE LET j == i + Len(pat) IN
       IF ine /\ j + 2 <= Len(s) /\ SubSeq(s, j, j + 2) = <<"IF", "NOT", "EXISTS">>
             /\ CaptureAt(s, j + 3) # NoMatch
       THEN CaptureAt(s, j + 3)
       ELSE CaptureAt(s, j)

(* re.search: the leftmost position where the pattern matches. *)
Search(s, pat, ine) ==
  LET hits == {i \in 1..Len(s) : MatchAt(s, i, pat, ine) # NoMatch} IN
  IF hits = {} THEN NoMatch
  ELSE MatchAt(s, CHOOSE i \in hits : \A k \in hits : i <= k, pat, ine)

(* r'CREATE (?:OR REPLACE )?FUNCTION (?:public\.)?(\w+)' *)
SearchFunc(s) ==
  LET hits == {i \in 1..Len(s) : MatchAt(s, i, <<"CREATE", "FUNCTION">>, FALSE) # NoMatch
                                 \/ MatchAt(s, i, <<"CREATE", "OR", "REPLACE", "FUNCTION">>, FALSE) # NoMatch}
      first == CHOOSE i \in hits : \A k \in hits : i <= k
  IN IF hits = {} THEN NoMatch
     ELSE IF MatchAt(s, first, <<"CREATE", "OR", "REPLACE", "FUNCTION">>, FALSE) # NoMatch
          THEN MatchAt(s, first, <<"CREATE", "OR", "REPLACE", "FUNCTION">>, FALSE)
          ELSE MatchAt(s, first, <<"CREATE", "FUNCTION">>, FALSE)

(* r'CREATE POLICY (?:public\.)?(\w+) ON (\w+)': group(1) or NoMatch. *)
PolicyMatchAt(s, i) ==
  IF ~(i + 4 <= Len(s) /\ SubSeq(s, i, i + 1) = <<"CREATE", "POLICY">>)
  THEN NoMatch
  ELSE IF /\ CaptureAt(s, i + 2) # NoMatch
          \* the \w+ must end the token, since " ON " follows it
          /\ s[i + 2] \in DOMAIN Qualified \/ WordPart(s[i + 2]) = s[i + 2]
          /\ s[i + 3] = "ON" /\ IsWord(s[i + 4])
       THEN CaptureAt(s, i + 2)
       ELSE NoMatch

SearchPolicy(s) ==
  LET hits == {i \in 1..Len(s) : PolicyMatchAt(s, i) # NoMatch} IN
  IF hits = {} THEN NoMatch
  ELSE PolicyMatchAt(s, CHOOSE i \in hits : \A k \in hits : i <= k)


(* The skip decision of one iteration of filter_statements. *)
FilterSkip(stmt, existing_objects) ==
  IF Contains(stmt, <<"CREATE", "INDEX">>) THEN
     LET n == Search(stmt, <<"CREATE", "INDEX">>, TRUE) IN
     n # NoMatch /\ n \in existing_objects["indexes"]
  ELSE IF Contains(stmt, <<"CREATE", "TABLE">>) THEN
     LET n == Search(stmt, <<"CREATE", "TABLE">>, TRUE) IN
     n # NoMatch /\ n \in existing_objects["tables"]
  ELSE IF Contains(stmt, <<"CREATE", "FUNCTION">>)
          \/ Contains(stmt, <<"CREATE", "OR", "REPLACE", "FUNCTION">>) THEN
     LET n == SearchFunc(stmt) IN
     n # NoMatch /\ n \in existing_objects["functions"] /\ ~Contains(stmt, <<"OR", "REPLACE">>)
  ELSE IF Contains(stmt, <<"CREATE", "TRIGGER">>) THEN
     LET n == Search(stmt, <<"CREATE", "TRIGGER">>, FALSE) IN
     n # NoMatch /\ n \in existing_objects["triggers"]
  ELSE IF Contains(stmt, <<"CREATE", "POLICY">>) THEN
     LET n == SearchPolicy(stmt) IN
     n # NoMatch /\ n \in existing_objects["policies"]
  ELSE IF Contains(stmt, <<"CREATE", "TYPE">>) THEN
     LET n == Search(stmt, <<"CREATE", "TYPE">>, FALSE) IN
     n # NoMatch /\ n \in existing_objects["types"]
  ELSE FALSE

(* Statement texts used as inputs of the filter and the rewriter. *)
STable    == <<"CREATE", "TABLE", "t", "(", NL, "id", "int", ");">>
STableQ   == <<"CREATE", "TABLE", "IF", "NOT", "EXISTS", "public.t", "(", "id", "int", ");">>
SIndex    == <<"CREATE", "INDEX", "idx", "ON", "t", "(", "id", ");">>
SFunc     == <<"CREATE", "FUNCTION", "f", "(", ")", "RETURNS", "void", "AS", "$$", NL,
               "BEGIN", NL, "END;", NL, "$$", "LANGUAGE", "plpgsql;">>
SFuncRep  == <<"CREATE", "OR", "REPLACE", "FUNCTION", "f", "(", ")", "RETURNS", "void",
               "AS", "$$", "BEGIN", "END;", "$$", "LANGUAGE", "plpgsql;">>
SFuncIdx  == <<"CREATE", "FUNCTION", "g", "(", ")", "RETURNS", "void", "AS", "$$", NL,
               "BEGIN", NL, "CREATE", "INDEX", "idx", "ON", "t", "(", "id", ");", NL,
               "END;", NL, "$$", "LANGUAGE", "plpgsql;">>
SFuncTab  == <<"CREATE", "FUNCTION", "f", "(", ")", "RETURNS", "void", "AS", "$$", NL,
               "BEGIN", NL, "CREATE", "TABLE", "t", "(", "id", "int", ");", NL,
               "END;", NL, "$$", "LANGUAGE", "plpgsql;">>
SFuncExt  == <<"CREATE", "FUNCTION", "h", "(", ")", "RETURNS", "void", "AS", "$$", NL,
               "BEGIN", NL, "CREATE", "EXTENSION", "pgcrypto;", NL,
               "END;", NL, "$$", "LANGUAGE", "plpgsql;">>
STrigger  == <<"CREATE", "TRIGGER", "trg", "AFTER", "INSERT", "ON", "t", "FOR", "EACH",
               "ROW", "EXECUTE", "FUNCTION", "f", "(", ");">>
SPolicy   == <<"CREATE", "POLICY", "pol", "ON", "t", "USING", "(", "true", ");">>
STypeEnum == <<"CREATE", "TYPE", "mood", "AS", "ENUM", "(", "'a'", ");">>
STypeComp == <<"CREATE", "TYPE", "mood", "AS", "(", "a", "int", ");">>
SExt      == <<"CREATE", "EXTENSION", "pgcrypto;">>
SInsert   == <<"INSERT", "INTO", "t", "VALUES", "(", "1", ");">>

FilterAlphabet == {STable, STableQ, SIndex, SFunc, SFuncRep, SFuncIdx, SFuncTab,
                   STrigger, SPolicy, STypeEnum, STypeComp, SExt, SInsert}

(* One statement per queried category, and the function statements whose *)
(* bodies hold CREATE INDEX / CREATE TABLE.                               *)
SnapshotAlphabet == {STable, SIndex, SFunc, STrigger, SPolicy, STypeEnum,
                     SFuncIdx, SFuncTab}

MaxStmts == 2

StmtLists(A) == UNION {[1..n -> A] : n \in 0..MaxStmts}

(* Object names the catalog queries can return, per category. *)
CatalogNames == [c \in Categories |->
                   CASE c = "tables"    -> {"t"}
                     [] c = "functions" -> {"f"}
                     [] c = "triggers"  -> {"trg"}
                     [] c = "indexes"   -> {"idx"}
                     [] c = "policies"  -> {"pol"}
                     [] c = "types"     -> {"mood"}
                     [] OTHER           -> {}]

(* The queries of get_existing_objects, in program order ('constraints' is *)
(* never queried).                                                         *)
QueryOrder == <<"tables", "functions", "triggers", "indexes", "policies", "types">>



QueryRows(r) == [ok |-> TRUE, rows |-> r]




(* The category whose branch filter_statements takes for a statement. *)
BranchCategory(stmt) ==
  IF Contains(stmt, <<"CREATE", "INDEX">>) THEN "indexes"
  ELSE IF Contains(stmt, <<"CREATE", "TABLE">>) THEN "tables"
  ELSE IF Contains(stmt, <<"CREATE", "FUNCTION">>)
          \/ Contains(stmt, <<"CREATE", "OR", "REPLACE", "FUNCTION">>) THEN "functions"
  ELSE IF Contains(stmt, <<"CREATE", "TRIGGER">>) THEN "triggers"
  ELSE IF Contains(stmt, <<"CREATE", "POLICY">>) THEN "policies"
  ELSE IF Contains(stmt, <<"CREATE", "TYPE">>) THEN "types"
  ELSE "none"

(* One query of get_existing_objects: `if result:` add the stripped rows. *)
QueryStep ==
  /\ qPos <= Len(QueryOrder)
  /\ LET c == QueryOrder[qPos] IN
       objs' = IF qRes[c].ok /\ qRes[c].rows # {}
               THEN [objs EXCEPT ![c] = @ \cup qRes[c].rows]
               ELSE objs
  /\ qPos' = qPos + 1
  /\ UNCHANGED <<qRes, fIn, fPos, fOut, fDec, fDone>>
  /\ UNCHANGED <<splitVars, rewriteVars, applyVars>>

(* One iteration of the for loop of filter_statements. *)
FilterStep ==
  /\ qPos > Len(QueryOrder)
  /\ fPos <= Len(fIn)
  /\ LET stmt == fIn[fPos]
         skip == FilterSkip(stmt, objs) IN
       /\ fOut' = IF ~skip THEN Append(fOut, stmt) ELSE fOut
       /\ fDec' = Append(fDec, [cat |-> BranchCategory(stmt), skip |-> skip])
  /\ fPos' = fPos + 1
  /\ UNCHANGED <<qRes, qPos, objs, fIn, fDone>>
  /\ UNCHANGED <<splitVars, rewriteVars, applyVars>>

FilterEnd ==
  /\ qPos > Len(QueryOrder)
  /\ fPos > Len(fIn)
  /\ ~fDone
  /\ fDone' = TRUE
  /\ UNCHANGED <<qRes, qPos, objs, fIn, fPos, fOut, fDec>>
  /\ UNCHANGED <<splitVars, rewriteVars, applyVars>>

(* filter_statements on every snapshot the catalog can produce. *)
FilterInit ==
  /\ qRes = [c \in Categories |-> QueryFailed]
  /\ qPos = Len(QueryOrder) + 1
  /\ objs \in {[c \in Categories |-> IF c \in present THEN CatalogNames[c] ELSE {}] :
                  present \in SUBSET Categories}
  /\ fIn \in StmtLists(FilterAlphabet)
  /\ fPos = 1 /\ fOut = << >> /\ fDec = << >> /\ fDone = FALSE
  /\ SplitDefault
  /\ RewriteDefault
  /\ ApplyDefault

FilterNext == FilterStep \/ FilterEnd

FilterSpec == FilterInit /\ [][FilterNext]_filterVars

(* get_existing_objects followed by filter_statements, every query failing, *)
(* returning no rows or returning rows.                                    *)
SnapshotInit ==
  /\ qRes \in {[c \in Categories |-> IF c \in failed \/ c = "constraints" THEN QueryFailed
                                      ELSE IF c \in rows THEN QueryRows(CatalogNames[c])
                                      ELSE QueryRows({})] :
                  failed \in SUBSET Categories, rows \in SUBSET Categories}
  /\ qPos = 1
  /\ objs = EmptyObjects
  /\ fIn \in StmtLists(SnapshotAlphabet)
  /\ fPos = 1 /\ fOut = << >> /\ fDec = << >> /\ fDone = FALSE
  /\ SplitDefault
  /\ RewriteDefault
  /\ ApplyDefault

SnapshotNext == QueryStep \/ FilterStep \/ FilterEnd

SnapshotSpec == SnapshotInit /\ [][SnapshotNext]_filterVars

----------------------------------------------------------------------------
(* modify_statements_for_safety *)

INE == <<"IF", "NOT", "EXISTS">>

(* str.replace(old, new): every non-overlapping occurrence, left to right. *)
RECURSIVE ReplaceAll(_, _, _)
ReplaceAll(s, old, new) ==
  IF Len(s) < Len(old) THEN s
  ELSE IF SubSeq(s, 1, Len(old)) = old
       THEN new \o ReplaceAll(SubSeq(s, Len(old) + 1, Len(s)), old, new)
       ELSE <<s[1]>> \o ReplaceAll(Tail(s), old, new)

(* Variant: the INDEX rule does not test for IF NOT EXISTS. *)
RewriteOneNoGuard(stmt) ==
  IF StartsWith(stmt, <<"CREATE", "INDEX">>)
  THEN ReplaceAll(stmt, <<"CREATE", "INDEX">>, <<"CREATE", "INDEX">> \o INE)
  ELSE IF StartsWith(stmt, <<"CREATE", "TABLE">>) /\ ~Contains(stmt, INE)
  THEN ReplaceAll(stmt, <<"CREATE", "TABLE">>, <<"CREATE", "TABLE">> \o INE)
  ELSE IF StartsWith(stmt, <<"CREATE", "TYPE">>) /\ ~Contains(stmt, INE)
          /\ Contains(stmt, <<"AS", "ENUM">>)
  THEN ReplaceAll(stmt, <<"CREATE", "TYPE">>, <<"CREATE", "TYPE">> \o INE)
  ELSE IF Contains(stmt, <<"CREATE", "EXTENSION">>) /\ ~Contains(stmt, INE)
  THEN ReplaceAll(stmt, <<"CREATE", "EXTENSION">>, <<"CREATE", "EXTENSION">> \o INE)
  ELSE stmt

(* Variant: the EXTENSION rule is tested first. *)
RewriteOneExtFirst(stmt) ==
  IF Contains(stmt, <<"CREATE", "EXTENSION">>) /\ ~Contains(stmt, INE)
  THEN ReplaceAll(stmt, <<"CREATE", "EXTENSION">>, <<"CREATE", "EXTENSION">> \o INE)
  ELSE IF StartsWith(stmt, <<"CREATE", "INDEX">>) /\ ~Contains(stmt, INE)
  THEN ReplaceAll(stmt, <<"CREATE", "INDEX">>, <<"CREATE", "INDEX">> \o INE)
  ELSE IF StartsWith(stmt, <<"CREATE", "TABLE">>) /\ ~Contains(stmt, INE)
  THEN ReplaceAll(stmt, <<"CREATE", "TABLE">>, <<"CREATE", "TABLE">> \o INE)
  ELSE IF StartsWith(stmt, <<"CREATE", "TYPE">>) /\ ~Contains(stmt, INE)
          /\ Contains(stmt, <<"AS", "ENUM">>)
  THEN ReplaceAll(stmt, <<"CREATE", "TYPE">>, <<"CREATE", "TYPE">> \o INE)
  ELSE stmt

(* The body of the for loop of modify_statements_for_safety. *)
RewriteOne(stmt) ==
  IF StartsWith(stmt, <<"CREATE", "INDEX">>) /\ ~Contains(stmt, INE)
  THEN ReplaceAll(stmt, <<"CREATE", "INDEX">>, <<"CREATE", "INDEX">> \o INE)
  ELSE IF StartsWith(stmt, <<"CREATE", "TABLE">>) /\ ~Contains(stmt, INE)
  THEN ReplaceAll(stmt, <<"CREATE", "TABLE">>, <<"CREATE", "TABLE">> \o INE)
  ELSE IF StartsWith(stmt, <<"CREATE", "TYPE">>) /\ ~Contains(stmt, INE)
          /\ Contains(stmt, <<"AS", "ENUM">>)
  THEN ReplaceAll(stmt, <<"CREATE", "TYPE">>, <<"CREATE", "TYPE">> \o INE)
  ELSE IF Contains(stmt, <<"CREATE", "EXTENSION">>) /\ ~Contains(stmt, INE)
  THEN ReplaceAll(stmt, <<"CREATE", "EXTENSION">>, <<"CREATE", "EXTENSION">> \o INE)
  ELSE stmt

SIndexQ   == <<"CREATE", "INDEX", "IF", "NOT", "EXISTS", "idx", "ON", "t", "(", "id", ");">>

(* Statements carrying a second CREATE keyword in a trailing line comment. *)
SIndexNote  == <<"CREATE", "INDEX", "idx", "ON", "t", "(", "id", ");",
                 "--", "CREATE", "TABLE", "t">>
STableNote  == <<"CREATE", "TABLE", "t", "(", "id", "int", ");",
                 "--", "CREATE", "EXTENSION", "pgcrypto;">>
STypeNote   == <<"CREATE", "TYPE", "mood", "AS", "ENUM", "(", "'a'", ");",
                 "--", "CREATE", "INDEX", "idx">>

RewriteAlphabet == {STable, STableQ, SIndex, SIndexQ, SFunc, SFuncRep, SFuncExt,
                    STrigger, SPolicy, STypeEnum, STypeComp, SExt, SInsert,
                    SIndexNote, STableNote, STypeNote}

RewriteInit ==
  /\ rIn \in StmtLists(RewriteAlphabet)
  /\ rPass = 1 /\ rPos = 1 /\ r1 = << >> /\ r2 = << >> /\ rDone = FALSE
  /\ SplitDefault
  /\ FilterDefault
  /\ ApplyDefault

(* One iteration of modify_statements_for_safety: of the first call on the *)
(* input, then of a second call on the first call's result.               *)
RewriteStep ==
  /\ ~rDone
  /\ IF rPass = 1 THEN
       IF rPos <= Len(rIn)
       THEN /\ r1' = Append(r1, RewriteOne(rIn[rPos]))
            /\ rPos' = rPos + 1
            /\ UNCHANGED <<rPass, r2, rDone>>
       ELSE /\ rPass' = 2
            /\ rPos' = 1
            /\ UNCHANGED <<r1, r2, rDone>>
     ELSE
       IF rPos <= Len(r1)
       THEN /\ r2' = Append(r2, RewriteOne(r1[rPos]))
            /\ rPos' = rPos + 1
            /\ UNCHANGED <<rPass, r1, rDone>>
       ELSE /\ rDone' = TRUE
            /\ UNCHANGED <<rPass, rPos, r1, r2>>
  /\ UNCHANGED rIn
  /\ UNCHANGED <<splitVars, filterVars, applyVars>>

RewriteNext == RewriteStep

RewriteSpec == RewriteInit /\ [][RewriteNext]_rewriteVars


----------------------------------------------------------------------------
(* Rewriter claims *)

(* A text with every IF NOT EXISTS clause removed. *)
RECURSIVE DropGuards(_)
DropGuards(s) ==
  IF s = << >> THEN << >>
  ELSE IF Len(s) >= 3 /\ SubSeq(s, 1, 3) = INE THEN DropGuards(SubSeq(s, 4, Len(s)))
  ELSE <<s[1]>> \o DropGuards(Tail(s))

(* The CREATE keywords followed by IF NOT EXISTS in a text. *)
GuardedKeywords(s) ==
  {kw \in {"INDEX", "TABLE", "TYPE", "EXTENSION"} : Contains(s, <<"CREATE", kw>> \o INE)}

(* C5: the rewrite is one-to-one and order-preserving (the i-th output is *)
(* the i-th input up to IF NOT EXISTS clauses) and idempotent (a second   *)
(* call returns the first call's texts).                                  *)
C5_Idempotent ==
  rDone =>
    /\ Len(r1) = Len(rIn)
    /\ \A i \in 1..Len(rIn) : DropGuards(r1[i]) = DropGuards(rIn[i])
    /\ r2 = r1

C5_Witness ==
  /\ rDone
  /\ Len(rIn) >= 2
  /\ \E i \in 1..Len(rIn) : r1[i] # rIn[i]
  /\ \E i \in 1..Len(rIn) : r1[i] = rIn[i]

NoRuleKind(st) ==
  \/ StartsWith(st, <<"CREATE", "FUNCTION">>)
  \/ StartsWith(st, <<"CREATE", "OR", "REPLACE", "FUNCTION">>)
  \/ StartsWith(st, <<"CREATE", "TRIGGER">>)
  \/ StartsWith(st, <<"CREATE", "POLICY">>)
  \/ (StartsWith(st, <<"CREATE", "TYPE">>) /\ ~Contains(st, <<"AS", "ENUM">>))

(* The rule of spec 4.4 a statement meets first, in the priority INDEX,  *)
(* TABLE, enum TYPE, EXTENSION, or "none".                                 *)
PriorityRule(st) ==
  CASE StartsWith(st, <<"CREATE", "INDEX">>) /\ ~Contains(st, INE) -> "INDEX"
    [] StartsWith(st, <<"CREATE", "TABLE">>) /\ ~Contains(st, INE) -> "TABLE"
    [] StartsWith(st, <<"CREATE", "TYPE">>) /\ ~Contains(st, INE)
          /\ Contains(st, <<"AS", "ENUM">>) -> "TYPE"
    [] Contains(st, <<"CREATE", "EXTENSION">>) /\ ~Contains(st, INE) -> "EXTENSION"
    [] OTHER -> "none"

(* Only the first matching rule acts: IF NOT EXISTS is added after its    *)
(* keyword and nowhere else, and a statement meeting no rule is unchanged. *)
FirstRuleOnly(st, out) ==
  /\ DropGuards(out) = DropGuards(st)
  /\ GuardedKeywords(out) \ GuardedKeywords(st) =
        IF PriorityRule(st) = "none" THEN {} ELSE {PriorityRule(st)}
  /\ PriorityRule(st) = "none" => out = st

(* C6 (original): at most one rule per statement, the first in priority    *)
(* order, and every CREATE FUNCTION / OR REPLACE FUNCTION, CREATE TRIGGER, *)
(* CREATE POLICY and non-enum CREATE TYPE statement is output unchanged.   *)
C6_Original ==
  rDone =>
    \A i \in 1..Len(rIn) :
      /\ FirstRuleOnly(rIn[i], r1[i])
      /\ NoRuleKind(rIn[i]) => r1[i] = rIn[i]

(* C6 (amended): at most one rule per statement, the first in priority     *)
(* order, adding IF NOT EXISTS only after its keyword; a FUNCTION,         *)
(* TRIGGER, POLICY or non-enum TYPE statement is output unchanged unless   *)
(* its text contains CREATE EXTENSION without IF NOT EXISTS, in which case *)
(* rule 4 (a containment test) adds IF NOT EXISTS after CREATE EXTENSION.  *)
C6_Amended ==
  rDone =>
    \A i \in 1..Len(rIn) :
      /\ FirstRuleOnly(rIn[i], r1[i])
      /\ (NoRuleKind(rIn[i]) /\ ~(Contains(rIn[i], <<"CREATE", "EXTENSION">>)
                                  /\ ~Contains(rIn[i], INE)))
            => r1[i] = rIn[i]
      /\ (NoRuleKind(rIn[i]) /\ Contains(rIn[i], <<"CREATE", "EXTENSION">>)
                             /\ ~Contains(rIn[i], INE))
            => GuardedKeywords(r1[i]) = {"EXTENSION"}

C6_Witness ==
  /\ rDone
  /\ \E i \in 1..Len(rIn) : rIn[i] \in {STableNote, STypeNote, SIndexNote} /\ r1[i] # rIn[i]
  /\ \E i \in 1..Len(rIn) : NoRuleKind(rIn[i]) /\ r1[i] # rIn[i]


----------------------------------------------------------------------------
(* Filter claims *)

(* The CREATE kind of a statement, read from its leading keywords, and the *)
(* catalog category the kind table (spec section 3) assigns to it.        *)
KindPrefix(st) ==
  CASE StartsWith(st, <<"CREATE", "INDEX">>)   -> <<"CREATE", "INDEX">>
    [] StartsWith(st, <<"CREATE", "TABLE">>)   -> <<"CREATE", "TABLE">>
    [] StartsWith(st, <<"CREATE", "FUNCTION">>) -> <<"CREATE", "FUNCTION">>
    [] StartsWith(st, <<"CREATE", "OR", "REPLACE", "FUNCTION">>) ->
          <<"CREATE", "OR", "REPLACE", "FUNCTION">>
    [] StartsWith(st, <<"CREATE", "TRIGGER">>) -> <<"CREATE", "TRIGGER">>
    [] StartsWith(st, <<"CREATE", "POLICY">>)  -> <<"CREATE", "POLICY">>
    [] StartsWith(st, <<"CREATE", "TYPE">>)    -> <<"CREATE", "TYPE">>
    [] OTHER -> << >>

KindCategory(st) ==
  LET p == KindPrefix(st) IN
  IF p = << >> THEN "none"
  ELSE CASE p[Len(p)] = "INDEX"    -> "indexes"
         [] p[Len(p)] = "TABLE"    -> "tables"
         [] p[Len(p)] = "FUNCTION" -> "functions"
         [] p[Len(p)] = "TRIGGER"  -> "triggers"
         [] p[Len(p)] = "POLICY"   -> "policies"
         [] OTHER                  -> "types"

(* The target name: the first identifier after the prefix, optionally     *)
(* preceded by IF NOT EXISTS and/or public.                                *)
KindName(st) ==
  LET j0 == Len(KindPrefix(st)) + 1
      j  == IF j0 + 2 <= Len(st) /\ SubSeq(st, j0, j0 + 2) = <<"IF", "NOT", "EXISTS">>
            THEN j0 + 3 ELSE j0
  IN CaptureAt(st, j)

KindDrop(st, existing) ==
  LET k == KindCategory(st) IN
  /\ k # "none"
  /\ KindName(st) # NoMatch
  /\ KindName(st) \in existing[k]
  /\ (k = "functions" => ~Contains(st, <<"OR", "REPLACE">>))

(* C3: filter_statements keeps, in order, exactly the statements the kind *)
(* rule does not drop: TABLE/INDEX/TRIGGER/POLICY/TYPE dropped iff the     *)
(* target name is in the matching category, FUNCTION dropped iff its name *)
(* is in functions and the text lacks OR REPLACE, others never dropped.   *)
C3_FilterRule ==
  fDone => fOut = SelectSeq(fIn, LAMBDA st : ~KindDrop(st, objs))

(* C4: every statement consults the one category of its CREATE kind; a    *)
(* CREATE [OR REPLACE] FUNCTION statement always consults functions.       *)
C4_OneCategory ==
  fDone => \A i \in 1..Len(fIn) : fDec[i].cat = KindCategory(fIn[i])

(* C9: each catalog query is independent: once the snapshot is built, a  *)
(* failed or empty query leaves exactly its category empty and the others *)
(* hold their rows; the filter keeps every statement whose CREATE kind's  *)
(* category query failed (fail-open).                                      *)
C9_SnapshotFailOpen ==
  /\ qPos > Len(QueryOrder) =>
        \A c \in Categories : objs[c] = IF qRes[c].ok THEN qRes[c].rows ELSE {}
  /\ \A i \in 1..Len(fDec) :
        (KindCategory(fIn[i]) # "none" /\ ~qRes[KindCategory(fIn[i])].ok)
           => ~fDec[i].skip

----------------------------------------------------------------------------
(* apply_schema_updates with backup_database.  The statements are the     *)
(* safe_statements computed from the schema file; only their number and   *)
(* order matter here.  Every psql / createdb / pg_dump run and the user's  *)
(* answer are nondeterministic.                                           *)

MaxApply == 5

ApplyInit ==
  /\ ApplyDefault
  /\ SplitDefault /\ FilterDefault /\ RewriteDefault

Others == <<splitVars, filterVars, rewriteVars>>

(* Variant: an empty statement list returns False. *)
PrepareEmptyFails ==
  /\ aPc = "createdb"
  /\ \E dbOk \in BOOLEAN, readOk \in BOOLEAN, n \in 0..MaxApply :
       IF ~dbOk \/ ~readOk
       THEN /\ aPc' = "done" /\ result' = FALSE
            /\ UNCHANGED <<aN, aAnalyzed>>
       ELSE IF n = 0
       THEN /\ aPc' = "done" /\ result' = FALSE /\ aN' = 0 /\ aAnalyzed' = TRUE
       ELSE /\ aPc' = "confirm" /\ aN' = n /\ aAnalyzed' = TRUE
            /\ UNCHANGED result
  /\ UNCHANGED <<aConfirm, aBackup, aBackupFile, executed, succ, err, Others>>

(* create_database (lines 253-255) and reading the schema file (257-262),  *)
(* then the analysis producing safe_statements and the empty check         *)
(* (272-274).                                                               *)
Prepare ==
  /\ aPc = "createdb"
  /\ \E dbOk \in BOOLEAN, readOk \in BOOLEAN, n \in 0..MaxApply :
       IF ~dbOk \/ ~readOk
       THEN /\ aPc' = "done" /\ result' = FALSE
            /\ UNCHANGED <<aN, aAnalyzed>>
       ELSE IF n = 0
       THEN /\ aPc' = "done" /\ result' = TRUE /\ aN' = 0 /\ aAnalyzed' = TRUE
       ELSE /\ aPc' = "confirm" /\ aN' = n /\ aAnalyzed' = TRUE
            /\ UNCHANGED result
  /\ UNCHANGED <<aConfirm, aBackup, aBackupFile, executed, succ, err, Others>>

(* The proceed prompt (lines 280-282). *)
Confirm ==
  /\ aPc = "confirm"
  /\ \E ans \in {"y", "n"} :
       /\ aConfirm' = ans
       /\ IF ans # "y"
          THEN aPc' = "done" /\ result' = FALSE
          ELSE aPc' = "backup" /\ UNCHANGED result
  /\ UNCHANGED <<aN, aAnalyzed, aBackup, aBackupFile, executed, succ, err, Others>>

(* backup_database (lines 231-248) and the check of its result (284-287):  *)
(* run_command's result is not consulted; the backup counts as made iff   *)
(* the dump file exists.  The shell command's status and the file are     *)
(* independent: pg_dump may leave the file behind when it fails, and a    *)
(* command line split by shell metacharacters in the credentials may exit *)
(* 0 without writing it.                                                   *)
Backup ==
  /\ aPc = "backup"
  /\ \E dumpOk \in BOOLEAN :
       \E exists \in BOOLEAN :
         /\ aBackup' = IF dumpOk THEN "ok" ELSE "failed"
         /\ aBackupFile' = exists
         /\ IF ~exists
            THEN aPc' = "done" /\ result' = FALSE
            ELSE aPc' = "loop" /\ UNCHANGED result
  /\ UNCHANGED <<aN, aAnalyzed, aConfirm, executed, succ, err, Others>>

(* The return value after the loop (lines 312-317). *)
ApplyOutcome(s, e) == IF e = 0 THEN TRUE ELSE s > 0

(* Variant: the loop stops at the first failed statement. *)
ApplyStepBreak ==
  /\ aPc = "loop"
  /\ IF Len(executed) < aN
     THEN \E ok \in BOOLEAN :
            /\ executed' = Append(executed, Len(executed) + 1)
            /\ succ' = IF ok THEN succ + 1 ELSE succ
            /\ err' = IF ok THEN err ELSE err + 1
            /\ IF ok THEN UNCHANGED <<aPc, result>>
               ELSE aPc' = "done" /\ result' = ApplyOutcome(succ, err + 1)
     ELSE /\ aPc' = "done"
          /\ result' = ApplyOutcome(succ, err)
          /\ UNCHANGED <<executed, succ, err>>
  /\ UNCHANGED <<aN, aAnalyzed, aConfirm, aBackup, aBackupFile, Others>>

(* One iteration of the apply loop (lines 293-310), or its end. *)
ApplyStep ==
  /\ aPc = "loop"
  /\ IF Len(executed) < aN
     THEN \E ok \in BOOLEAN :
            /\ executed' = Append(executed, Len(executed) + 1)
            /\ succ' = IF ok THEN succ + 1 ELSE succ
            /\ err' = IF ok THEN err ELSE err + 1
            /\ UNCHANGED <<aPc, result>>
     ELSE /\ aPc' = "done"
          /\ result' = ApplyOutcome(succ, err)
          /\ UNCHANGED <<executed, succ, err>>
  /\ UNCHANGED <<aN, aAnalyzed, aConfirm, aBackup, aBackupFile, Others>>

ApplyNext == Prepare \/ Confirm \/ Backup \/ ApplyStep

ApplySpec == ApplyInit /\ [][ApplyNext]_applyVars

----------------------------------------------------------------------------
(* Apply claims *)

(* C7: statements run one at a time in order; once confirmed and backed    *)
(* up, all N run whatever fails, successes + failures = N and the result  *)
(* is success iff no failure or some success; an empty list returns       *)
(* success with no execution.                                              *)
C7_ApplyAll ==
  /\ executed = [i \in 1..Len(executed) |-> i]
  /\ Len(executed) = succ + err
  /\ (aPc = "done" /\ aConfirm = "y" /\ aBackupFile) =>
        /\ Len(executed) = aN
        /\ succ + err = aN
        /\ result = (err = 0 \/ succ > 0)
  /\ (aPc = "done" /\ aAnalyzed /\ aN = 0) => (result /\ executed = << >>)

C7_Witness ==
  /\ aPc = "done" /\ aN = MaxApply
  /\ err > 0 /\ succ > 0
  /\ err < aN

(* C8: when the confirmation is declined or the backup fails no statement *)
(* runs and the run returns failure; a statement runs only after the      *)
(* backup step.                                                            *)
C8_NoExecWithoutBackup ==
  /\ (aConfirm = "n" \/ aBackup = "failed") =>
        /\ executed = << >>
        /\ (aPc = "done" => ~result)
  /\ executed # << >> => aBackup # "none"

====
